---- MODULE Spec2Model ----
(***************************************************************************)
(* Authentication and authorization core of Nano Admin: the account store, *)
(* verification codes, refresh tokens, API keys and the HTTP handlers of   *)
(* server/storage.ts (storage class and routes), server/middleware.ts and  *)
(* server/auth.ts, and the browser's AuthProvider and useAuthFetch of      *)
(* client/src/lib/auth.tsx.                                                *)
(*                                                                         *)
(* A handler that decides on a read and writes afterwards runs in two      *)
(* steps, <Handler>Begin (middleware, validation and the reads up to the   *)
(* decision) and <Handler>End (the writes and the response); between the   *)
(* two steps any other request may run, as between two awaits of the       *)
(* Node.js process.  The requests in flight are the bag `inflight`.        *)
(* A request that is answered by an early return before any write changes  *)
(* no state: its answer is the value of the handler's <handler>Check       *)
(* operator, and the Begin step is enabled when the check lets it pass.    *)
(***************************************************************************)
EXTENDS Integers, Sequences, FiniteSets, Bags, TLC

\* ---------------------------------------------------------------- bounds
MaxTime == 3
MaxCodes == 2
MaxTokens == 2
MaxInFlight == 2
MaxUsers == 4
MaxApiKeys == 3
\* the clock moves in steps of TickStep ticks
TickStep == 3
\* and by at most MaxWeeks whole weeks
MaxWeeks == 2

\* ------------------------------------------------- program constants
\* lifetimes, in clock ticks of 5 minutes
ACCESS_TOKEN_EXPIRY == 3
VerificationCodeMinutes == 2
\* lifetime of a refresh token, in days
REFRESH_TOKEN_EXPIRY_DAYS == 7

\* ------------------------------------------------------ input domains
Emails == {"a@x.com", "b@x.com", "c@x.com"}
Passwords == {"secret1", "secret2"}
\* the password a new account is registered with
SignupPasswords == {"secret1"}
CodeValues == {"111111", "222222"}
Roles == {"admin", "user"}
Statuses == {"pending", "active", "blocked"}

VARIABLES
  users,              \* table users: sequence of rows, id = index
  verificationCodes,  \* table verification_codes: sequence of rows, id = index
  refreshTokens,      \* table refresh_tokens: set of rows
  nextToken,          \* number of refresh-token strings generated so far
  accessTokens,       \* signed access tokens handed out: set of [userId, role, exp]
  apiKeys,            \* table api_keys: sequence of rows, id = index
  inflight,           \* bag of requests between their Begin and End step
  now,                \* the clock, new Date()
  newActivities,      \* the rows the latest step inserted into table activities
  newEmails,          \* the mails the latest step handed to the mailer
  revoked,            \* history: the refresh-token rows deleted so far, and by whom
  client              \* the browser: the state of AuthProvider and of a useAuthFetch call

vars == <<users, verificationCodes, refreshTokens, nextToken, accessTokens,
          apiKeys, inflight, now, newActivities, newEmails, revoked, client>>

\* ------------------------------------------------------------ auth.ts
hashPassword(p) == <<"bcrypt", p>>

comparePassword(p, hash) == hash = <<"bcrypt", p>>

getRefreshTokenExpiry == now + REFRESH_TOKEN_EXPIRY_DAYS * 24 * 12

getVerificationCodeExpiry == now + VerificationCodeMinutes

\* the payload carries the role the account had when the token was signed
generateAccessToken(uid) ==
  [userId |-> uid, role |-> users[uid].role, exp |-> now + ACCESS_TOKEN_EXPIRY]

\* the tokens clients hold after one more was signed; a token of the same
\* account with an earlier exp verifies only when the later one does too
HandOut(t) ==
  {s \in accessTokens : s.userId # t.userId \/ s.role # t.role \/ s.exp > t.exp}
    \cup {t}

\* jwt.verify: the token was signed by this server and is not past its exp
verifyAccessToken(t) == t \in accessTokens /\ now < t.exp

\* --------------------------------------------------- storage: users
UserIds == 1..Len(users)

\* getUser(id): the row with that id unless soft-deleted; 0 stands for undefined
\* the select without its isDeleted filter
getUser_IncludesDeleted(id) == IF id \in UserIds THEN id ELSE 0

getUser(id) == IF id \in UserIds /\ ~users[id].isDeleted THEN id ELSE 0

UsersByEmail(email) == {i \in UserIds : users[i].email = email /\ ~users[i].isDeleted}

\* getUserByEmail(email): a non-deleted row with that email, 0 for undefined
getUserByEmail(email) ==
  IF UsersByEmail(email) = {} THEN 0 ELSE CHOOSE i \in UsersByEmail(email) : TRUE

\* the column without its UNIQUE constraint
EmailUniqueViolation_NoConstraint(email, exceptId) == FALSE

\* users.email carries a UNIQUE constraint over all rows, soft-deleted included
EmailUniqueViolation(email, exceptId) ==
  \E i \in UserIds : i # exceptId /\ users[i].email = email

NewUser(email, pw, role, status) ==
  [email |-> email, password |-> hashPassword(pw), role |-> role,
   status |-> status, isDeleted |-> FALSE]

\* createUser: the insert fails (throws) on a unique violation
createUserFails(email) == EmailUniqueViolation(email, 0)

createUser(email, pw, role, status) == Append(users, NewUser(email, pw, role, status))

countUsers == Cardinality({i \in UserIds : ~users[i].isDeleted})

\* ------------------------------------------ storage: verification codes
CodeIds == 1..Len(verificationCodes)

MatchingCodes(email, code) ==
  {i \in CodeIds : /\ verificationCodes[i].email = email
                   /\ verificationCodes[i].code = code
                   /\ ~verificationCodes[i].used}

\* the query without its used = false condition
getVerificationCode_IgnoresUsed(email, code) ==
  {i \in CodeIds : /\ verificationCodes[i].email = email
                   /\ verificationCodes[i].code = code}

\* getVerificationCode(email, code): the unused rows matching both; the query
\* hands the caller one of them, and undefined when the set is empty
getVerificationCode(email, code) == MatchingCodes(email, code)

\* okCount counts the successful verifications that consumed the row (history)
createVerificationCode(email, code, autoApprove) ==
  Append(verificationCodes,
         [email |-> email, code |-> code, expiresAt |-> getVerificationCodeExpiry,
          used |-> FALSE, autoApprove |-> autoApprove, okCount |-> 0])

markVerificationCodeUsed(id) ==
  [verificationCodes EXCEPT ![id].used = TRUE, ![id].okCount = @ + 1]

\* ---------------------------------------------- storage: refresh tokens
TokenStrings == 1..(nextToken - 1)

\* getRefreshToken(token): the rows with that token string (at most one)
getRefreshToken(token) == {t \in refreshTokens : t.token = token}

\* via and seen record which handler stored the row and the account status
\* that handler had read (history)
createRefreshToken(uid, via, seen) ==
  refreshTokens \cup {[token |-> nextToken, userId |-> uid,
                       expiresAt |-> getRefreshTokenExpiry,
                       via |-> via, seen |-> seen]}

\* the delete taking every row of the token's account with it
deleteRefreshToken_AllOfUser(token) ==
  {t \in refreshTokens : \A s \in getRefreshToken(token) : t.userId # s.userId}

deleteRefreshToken(token) == {t \in refreshTokens : t.token # token}

\* the delete with its where clause on the wrong column
deleteUserRefreshTokens_WrongColumn(uid) == {t \in refreshTokens : t.token # uid}

deleteUserRefreshTokens(uid) == {t \in refreshTokens : t.userId # uid}

\* ---------------------------------------------------- storage: API keys
ApiKeyIds == 1..Len(apiKeys)

\* getApiKeyByKey(key): the key string of row i is "nano_" followed by i
getApiKeyByKey(key) == IF key \in ApiKeyIds /\ ~apiKeys[key].deleted THEN key ELSE 0

\* lastUsedAt of a key no request has used yet (null)
Never == -1

\* updateApiKey(id, {lastUsedAt: new Date()})
touchApiKey(key) == [apiKeys EXCEPT ![key].lastUsedAt = now]

\* table api_keys once a middleware has run for this key: the row is updated
\* as soon as the key is found active, before the owner is looked up
apiKeysAfterAuth(key) ==
  IF getApiKeyByKey(key) # 0 /\ apiKeys[key].isActive THEN touchApiKey(key) ELSE apiKeys

\* ------------------------------------------------------- middleware.ts
\* authMiddleware for a bearer access token: the answer and the user loaded
\* the middleware without its check of the account's status
authMiddleware_SkipsStatus(t) ==
  IF ~verifyAccessToken(t) THEN [code |-> 401, uid |-> 0]
  ELSE IF getUser(t.userId) = 0 THEN [code |-> 401, uid |-> 0]
  ELSE [code |-> 200, uid |-> t.userId]

authMiddleware(t) ==
  IF ~verifyAccessToken(t) THEN [code |-> 401, uid |-> 0]
  ELSE IF getUser(t.userId) = 0 THEN [code |-> 401, uid |-> 0]
  ELSE IF users[t.userId].status # "active" THEN [code |-> 403, uid |-> 0]
  ELSE [code |-> 200, uid |-> t.userId]

\* the gate letting every authenticated caller through
adminOnly_Anyone(uid) == uid # 0

adminOnly(uid) == uid # 0 /\ users[uid].role = "admin"

\* the middleware without its check of isActive
apiKeyMiddleware_IgnoresActive(key) ==
  IF getApiKeyByKey(key) = 0 THEN [code |-> 401, uid |-> 0]
  ELSE IF getUser(apiKeys[key].userId) = 0
          \/ users[apiKeys[key].userId].status # "active" THEN [code |-> 401, uid |-> 0]
  ELSE [code |-> 200, uid |-> apiKeys[key].userId]

\* apiKeyMiddleware for an X-API-Key header
apiKeyMiddleware(key) ==
  IF getApiKeyByKey(key) = 0 \/ ~apiKeys[key].isActive THEN [code |-> 401, uid |-> 0]
  ELSE IF getUser(apiKeys[key].userId) = 0
          \/ users[apiKeys[key].userId].status # "active" THEN [code |-> 401, uid |-> 0]
  ELSE [code |-> 200, uid |-> apiKeys[key].userId]

\* --------------------------------------------------------- bookkeeping
\* the answer of a handler: HTTP status and message; Proceed stands for a
\* check that lets the request go on to its writes
Answer(code, msg) == [code |-> code, msg |-> msg]

Proceed == Answer(0, "")

Activity(uid, action) == [userId |-> uid, action |-> action]

\* a call of sendApprovalEmail
Mail(kind, to) == [kind |-> kind, to |-> to]

\* a call of sendVerificationEmail with the boolean it returned: false when
\* transporter.sendMail threw
sendVerificationEmail(to, ok) == [kind |-> "verification", to |-> to, ok |-> ok]

\* a request between its two steps, with what its Begin step read
Req(op, uid, email, pw, seen, cid) ==
  [op |-> op, uid |-> uid, email |-> email, pw |-> pw, seen |-> seen,
   cid |-> cid, key |-> 0, skey |-> ""]

CanStart == BagCardinality(inflight) < MaxInFlight

Start(r) == inflight' = inflight (+) SetToBag({r})

Finish(r) == inflight' = inflight (-) SetToBag({r})

Pending(op) == {r \in BagToSet(inflight) : r.op = op}

\* the rows a delete statement removes, for the history
Revoke(rows, by) ==
  revoked' = revoked \cup {[token |-> t.token, userId |-> t.userId, by |-> by] : t \in rows}

\* ------------------------------------------------- client: lib/auth.tsx
\* null, for an access token
NoToken == [userId |-> 0, role |-> "", exp |-> 0]

\* the browser when the page is loaded: the state of AuthProvider
\* (accessToken), the refreshToken cookie (0 for none), and the useAuthFetch
\* call in progress: where it is (pc), the accessToken its callback closed
\* over, the status of its latest response; and, as history, the token its
\* first request was rejected with, the token the refresh issued, the token
\* its retry carried, the number of retries and whether it called logout
AuthProvider ==
  [accessToken |-> NoToken, cookie |-> 0, pc |-> "idle", closure |-> NoToken,
   status |-> 0, rejected |-> NoToken, issued |-> NoToken, retryWith |-> NoToken,
   retries |-> 0, loggedOut |-> FALSE]

\* ---------------------------------------------------------------- Init
\* The deployment as seeded: no route creates an account or a key without an
\* authenticated caller or a key, so the store starts with one administrator
\* and one tenant application account (role user), each holding an API key
\* that was last used when the store was seeded.
Init ==
  /\ users = <<NewUser("a@x.com", "secret1", "admin", "active"),
               NewUser("b@x.com", "secret1", "user", "active")>>
  /\ verificationCodes = <<>>
  /\ refreshTokens = {}
  /\ nextToken = 1
  /\ accessTokens = {}
  /\ apiKeys = <<[userId |-> 1, isActive |-> TRUE, deleted |-> FALSE, lastUsedAt |-> 0],
                 [userId |-> 2, isActive |-> TRUE, deleted |-> FALSE, lastUsedAt |-> 0]>>
  /\ inflight = EmptyBag
  /\ now = 0
  /\ newActivities = {}
  /\ newEmails = << >>
  /\ revoked = {}
  /\ client = AuthProvider

\* time passes between two requests, a quarter of an hour at a time
Tick ==
  /\ now + TickStep <= MaxTime
  /\ now' = now + TickStep
  /\ newActivities' = {}
  /\ newEmails' = << >>
  /\ UNCHANGED <<users, verificationCodes, refreshTokens, nextToken,
                 accessTokens, apiKeys, inflight, revoked, client>>

\* a week passes, the lifetime of a refresh token
Week == REFRESH_TOKEN_EXPIRY_DAYS * 24 * 12

TickWeek ==
  /\ now + Week <= MaxTime + MaxWeeks * Week
  /\ now' = now + Week
  /\ newActivities' = {}
  /\ newEmails' = << >>
  /\ UNCHANGED <<users, verificationCodes, refreshTokens, nextToken,
                 accessTokens, apiKeys, inflight, revoked, client>>

\* ------------------------------------------------- POST /api/auth/login
\* and POST /api/external/login (behind apiKeyMiddleware)
\* the handler reading the status before it compares the password
loginCheck_StatusFirst(email, pw, pendingMsg) ==
  LET u == getUserByEmail(email) IN
  IF u = 0 THEN Answer(401, "Invalid email or password")
  ELSE IF users[u].status = "pending" THEN Answer(403, pendingMsg)
  ELSE IF users[u].status = "blocked" THEN Answer(403, "Account has been blocked")
  ELSE IF ~comparePassword(pw, users[u].password)
  THEN Answer(401, "Invalid email or password")
  ELSE Proceed

loginCheck(email, pw, pendingMsg) ==
  LET u == getUserByEmail(email) IN
  IF u = 0 THEN Answer(401, "Invalid email or password")
  ELSE IF ~comparePassword(pw, users[u].password)
  THEN Answer(401, "Invalid email or password")
  ELSE IF users[u].status = "pending" THEN Answer(403, pendingMsg)
  ELSE IF users[u].status = "blocked" THEN Answer(403, "Account has been blocked")
  ELSE Proceed

\* key is the X-API-Key of the external route, 0 on the general route
\* the request keeps the password it has compared (history)
LoginBeginBody(op, key, email, pw, pendingMsg) ==
  LET u == getUserByEmail(email) IN
  /\ loginCheck(email, pw, pendingMsg) = Proceed
  /\ CanStart
  /\ Start(Req(op, u, "", pw, users[u].status, 0))
  /\ apiKeys' = apiKeysAfterAuth(key)
  /\ newActivities' = {}
  /\ newEmails' = << >>
  /\ UNCHANGED <<users, verificationCodes, refreshTokens, nextToken,
                 accessTokens, now, revoked, client>>

\* the writes of a login: one refresh-token row, the access token, the activity
LoginEndBody(r, act) ==
  /\ nextToken <= MaxTokens
  /\ refreshTokens' = createRefreshToken(r.uid, r.op, r.seen)
  /\ nextToken' = nextToken + 1
  /\ accessTokens' = HandOut(generateAccessToken(r.uid))
  /\ Finish(r)
  /\ newActivities' = {Activity(r.uid, act)}
  /\ newEmails' = << >>
  /\ UNCHANGED <<users, verificationCodes, apiKeys, now, revoked>>

AuthLoginBegin ==
  \E email \in Emails, pw \in Passwords :
     LoginBeginBody("login", 0, email, pw, "Account pending approval")

\* a login made by another client than the browser the model follows
AuthLoginEnd ==
  /\ UNCHANGED client
  /\ \E r \in Pending("login") : LoginEndBody(r, "User logged in")

externalLoginCheck(key, email, pw) ==
  IF apiKeyMiddleware(key).code # 200
  THEN Answer(401, "Invalid or disabled API key")
  ELSE loginCheck(email, pw, "Please verify your email first")

ExternalLoginBegin ==
  \E key \in ApiKeyIds, email \in Emails, pw \in Passwords :
     /\ apiKeyMiddleware(key).code = 200
     /\ LoginBeginBody("extlogin", key, email, pw, "Please verify your email first")

ExternalLoginEnd ==
  /\ UNCHANGED client
  /\ \E r \in Pending("extlogin") : LoginEndBody(r, "User logged in via API")

\* ----------------------------------------------- callers of bearer routes
\* the credentials a client can put in Authorization: Bearer
Credentials ==
  {[kind |-> "jwt", token |-> t, key |-> 0] : t \in accessTokens}
    \cup {[kind |-> "key", token |-> [userId |-> 0, role |-> "", exp |-> 0], key |-> k] : k \in ApiKeyIds}

\* authMiddleware on either kind of bearer credential
authMiddlewareAny(c) ==
  IF c.kind = "key"
  THEN apiKeyMiddleware(c.key)
  ELSE authMiddleware(c.token)

\* the accounts a request can be authenticated as
Callers == {authMiddlewareAny(c).uid : c \in Credentials} \ {0}

\* table api_keys once authMiddleware has run on credential c
apiKeysAfter(c) == IF c.kind = "key" THEN apiKeysAfterAuth(c.key) ELSE apiKeys

\* ------------------------------------------ POST /api/admin/users/create
adminCreateCheck(email) ==
  IF getUserByEmail(email) # 0 THEN Answer(400, "Email already registered")
  ELSE Proceed

\* the answer once createUser has run or thrown
adminCreateAnswer(email) ==
  IF adminCreateCheck(email) # Proceed THEN adminCreateCheck(email)
  ELSE IF createUserFails(email) THEN Answer(500, "Failed to create user")
  ELSE Answer(201, "")

AdminCreateUserBeginBody(c, email, pw) ==
  LET caller == authMiddlewareAny(c).uid IN
  /\ CanStart
  /\ adminOnly(caller)
  /\ adminCreateCheck(email) = Proceed
  /\ Start(Req("adminCreate", caller, email, pw,
               IF countUsers = 0 THEN "admin" ELSE "user", 0))
  /\ apiKeys' = apiKeysAfter(c)
  /\ newActivities' = {}
  /\ newEmails' = << >>
  /\ UNCHANGED <<users, verificationCodes, refreshTokens, nextToken,
                 accessTokens, now, revoked, client>>

AdminCreateUserBegin ==
  /\ CanStart
  /\ \E c \in Credentials, email \in Emails, pw \in SignupPasswords :
        AdminCreateUserBeginBody(c, email, pw)

AdminCreateUserEndBody(r) ==
  /\ Finish(r)
  /\ newActivities' = {}
  /\ newEmails' = << >>
  /\ UNCHANGED <<verificationCodes, refreshTokens, nextToken, accessTokens,
                 apiKeys, now, revoked, client>>
  /\ IF createUserFails(r.email)
     THEN UNCHANGED users
     ELSE /\ Len(users) < MaxUsers
          /\ users' = createUser(r.email, r.pw, r.seen, "active")

AdminCreateUserEnd ==
  \E r \in Pending("adminCreate") : AdminCreateUserEndBody(r)

\* ------------------------------------------------ external signup keys
\* table external_signup_keys, as provisioned for the tenant applications
SignupKeys == {"sk_auto", "sk_manual", "sk_off"}

getExternalSignupKey(k) ==
  [isActive |-> k # "sk_off", autoApproveSignup |-> k = "sk_auto"]

CanCreateCode == Len(verificationCodes) < MaxCodes

\* ------------------------------------------------ POST /api/public/signup
publicSignupCheck(k, email) ==
  IF ~getExternalSignupKey(k).isActive THEN Answer(401, "Invalid API key")
  ELSE IF getUserByEmail(email) # 0 THEN Answer(400, "Email already registered")
  ELSE Proceed

PublicSignupBegin ==
  /\ CanStart
  /\ \E k \in SignupKeys, email \in Emails, pw \in SignupPasswords :
        /\ publicSignupCheck(k, email) = Proceed
        /\ Start([Req("signup", 0, email, pw, "", 0) EXCEPT !.skey = k])
        /\ newActivities' = {}
        /\ newEmails' = << >>
        /\ UNCHANGED <<users, verificationCodes, refreshTokens, nextToken,
                       accessTokens, apiKeys, now, revoked, client>>

\* the answer of the End step: the value sendVerificationEmail returned is
\* not read
publicSignupAnswer(r) ==
  IF createUserFails(r.email) THEN Answer(500, "Signup failed")
  ELSE Answer(201, "Verification code sent to email")

PublicSignupEndBody(r, code) ==
  LET signupKey == getExternalSignupKey(r.skey) IN
  /\ Finish(r)
  /\ newActivities' = {}
  /\ \E emailSent \in BOOLEAN :
        newEmails' = IF createUserFails(r.email) THEN << >>
                     ELSE <<sendVerificationEmail(r.email, emailSent)>>
  /\ UNCHANGED <<refreshTokens, nextToken, accessTokens, apiKeys, now, revoked, client>>
  /\ IF createUserFails(r.email)
     THEN UNCHANGED <<users, verificationCodes>>
     ELSE /\ Len(users) < MaxUsers
          /\ CanCreateCode
          /\ users' = createUser(r.email, r.pw, "user",
                                 IF signupKey.autoApproveSignup THEN "active" ELSE "pending")
          /\ verificationCodes' =
               createVerificationCode(r.email, code, signupKey.autoApproveSignup)

PublicSignupEnd ==
  \E r \in Pending("signup"), code \in CodeValues : PublicSignupEndBody(r, code)

\* ------------------------------------------- POST /api/external/register
externalRegisterCheck(key, email) ==
  IF apiKeyMiddleware(key).code # 200 THEN Answer(401, "Invalid or disabled API key")
  ELSE IF getUserByEmail(email) # 0 THEN Answer(400, "Email already registered")
  ELSE Proceed

ExternalRegisterBegin ==
  /\ CanStart
  /\ \E key \in ApiKeyIds, email \in Emails, pw \in SignupPasswords :
        /\ externalRegisterCheck(key, email) = Proceed
        /\ Start(Req("extregister", 0, email, pw, "", 0))
        /\ apiKeys' = apiKeysAfterAuth(key)
        /\ newActivities' = {}
        /\ newEmails' = << >>
        /\ UNCHANGED <<users, verificationCodes, refreshTokens, nextToken,
                       accessTokens, now, revoked, client>>

\* the answer of the End step: res.json without a status call, or the catch
externalRegisterAnswer(r) ==
  IF createUserFails(r.email) THEN Answer(500, "Registration failed")
  ELSE Answer(200, "Verification code sent to your email")

ExternalRegisterEndBody(r, code) ==
  /\ Finish(r)
  /\ UNCHANGED <<refreshTokens, nextToken, accessTokens, apiKeys, now, revoked, client>>
  /\ IF createUserFails(r.email)
     THEN /\ newActivities' = {}
          /\ newEmails' = << >>
          /\ UNCHANGED <<users, verificationCodes>>
     ELSE /\ Len(users) < MaxUsers
          /\ CanCreateCode
          /\ users' = createUser(r.email, r.pw, "user", "pending")
          /\ verificationCodes' = createVerificationCode(r.email, code, TRUE)
          /\ newActivities' = {Activity(Len(users) + 1, "User registered via API")}
          /\ \E emailSent \in BOOLEAN :
                newEmails' = <<sendVerificationEmail(r.email, emailSent)>>

ExternalRegisterEnd ==
  \E r \in Pending("extregister"), code \in CodeValues : ExternalRegisterEndBody(r, code)

\* ------------------------------------------------ POST /api/auth/verify
\* the answer to a request for which getVerificationCode returned row cid
\* (0 for undefined)
verifyCheck(cid) ==
  IF cid = 0 THEN Answer(400, "Invalid verification code")
  ELSE IF now > verificationCodes[cid].expiresAt
  THEN Answer(400, "Verification code expired")
  ELSE Proceed

\* the rows on which a verification request for (email, code) goes on
VerifiableCodes(email, code) ==
  {cid \in getVerificationCode(email, code) : verifyCheck(cid) = Proceed}

VerifyBeginBody(op, key, email, code) ==
  \E cid \in getVerificationCode(email, code) :
     /\ verifyCheck(cid) = Proceed
     /\ CanStart
     /\ Start([Req(op, 0, email, "", "", cid) EXCEPT !.key = key])
     /\ apiKeys' = apiKeysAfterAuth(key)
     /\ newActivities' = {}
     /\ newEmails' = << >>
     /\ UNCHANGED <<users, verificationCodes, refreshTokens, nextToken,
                    accessTokens, now, revoked, client>>

AuthVerifyBegin ==
  \E email \in Emails, code \in CodeValues : VerifyBeginBody("verify", 0, email, code)

\* the handler approving the account as the external route does
AuthVerifyEndBody_Approves(r) ==
  LET u == getUserByEmail(r.email) IN
  /\ Finish(r)
  /\ verificationCodes' = markVerificationCodeUsed(r.cid)
  /\ newActivities' = IF u # 0 THEN {Activity(u, "Email verified")} ELSE {}
  /\ newEmails' = << >>
  /\ users' = IF u # 0 THEN [users EXCEPT ![u].status = "active"] ELSE users
  /\ UNCHANGED <<refreshTokens, nextToken, accessTokens, apiKeys, now, revoked, client>>

AuthVerifyEndBody(r) ==
  LET u == getUserByEmail(r.email) IN
  /\ Finish(r)
  /\ verificationCodes' = markVerificationCodeUsed(r.cid)
  /\ newActivities' = IF u # 0 THEN {Activity(u, "Email verified")} ELSE {}
  /\ newEmails' = << >>
  /\ UNCHANGED <<users, refreshTokens, nextToken, accessTokens, apiKeys, now, revoked, client>>

AuthVerifyEnd ==
  \E r \in Pending("verify") : AuthVerifyEndBody(r)

\* --------------------------------------------- POST /api/external/verify
ExternalVerifyBegin ==
  \E key \in ApiKeyIds, email \in Emails, code \in CodeValues :
     /\ apiKeyMiddleware(key).code = 200
     /\ VerifyBeginBody("extverify", key, email, code)

\* the answer of the End step: 400 when no account holds the email any more
externalVerifyAnswer(r) ==
  IF getUserByEmail(r.email) = 0 THEN Answer(400, "User not found")
  ELSE Answer(200, "Email verified and account approved")

ExternalVerifyEndBody(r) ==
  LET u == getUserByEmail(r.email) IN
  /\ Finish(r)
  /\ verificationCodes' = markVerificationCodeUsed(r.cid)
  /\ UNCHANGED <<apiKeys, now, revoked, client>>
  /\ IF u = 0
     THEN /\ newActivities' = {}
          /\ newEmails' = << >>
          /\ UNCHANGED <<users, refreshTokens, nextToken, accessTokens>>
     ELSE /\ nextToken <= MaxTokens
          /\ users' = [users EXCEPT ![u].status = "active"]
          /\ refreshTokens' = createRefreshToken(u, "extverify", users[u].status)
          /\ nextToken' = nextToken + 1
          /\ accessTokens' = HandOut(generateAccessToken(u))
          /\ newActivities' = {Activity(u, "Email verified and auto-approved")}
          /\ newEmails' = << >>

ExternalVerifyEnd ==
  \E r \in Pending("extverify") : ExternalVerifyEndBody(r)

\* ------------------------------------------- POST /api/auth/resend-code
resendCheck(email) ==
  IF getUserByEmail(email) = 0 THEN Answer(400, "User not found") ELSE Proceed

\* the answer once the mail was attempted: 500 when sendVerificationEmail
\* returned false
resendAnswer(email, emailSent) ==
  IF resendCheck(email) # Proceed THEN resendCheck(email)
  ELSE IF ~emailSent THEN Answer(500, "Failed to send verification email")
  ELSE Answer(200, "Verification code sent")

\* the code row is inserted before the mail is sent
ResendCodeBody(email, code, emailSent) ==
  /\ resendCheck(email) = Proceed
  /\ CanCreateCode
  /\ verificationCodes' = createVerificationCode(email, code, FALSE)
  /\ newActivities' = {}
  /\ newEmails' = <<sendVerificationEmail(email, emailSent)>>
  /\ UNCHANGED <<users, refreshTokens, nextToken, accessTokens, apiKeys,
                 inflight, now, revoked, client>>

ResendCode ==
  \E email \in Emails, code \in CodeValues, emailSent \in BOOLEAN :
     ResendCodeBody(email, code, emailSent)

\* ----------------------------------------------- POST /api/auth/refresh
\* the handler without its check of the owner's status
refreshAnswer_SkipsStatus(cookie) ==
  IF cookie = 0 THEN Answer(401, "Refresh token required")
  ELSE IF getRefreshToken(cookie) = {} THEN Answer(401, "Invalid refresh token")
  ELSE LET storedToken == CHOOSE t \in getRefreshToken(cookie) : TRUE IN
       IF now > storedToken.expiresAt THEN Answer(401, "Refresh token expired")
       ELSE IF getUser(storedToken.userId) = 0
       THEN Answer(401, "User not found or inactive")
       ELSE Answer(200, "")

\* cookie 0 stands for a request without the refreshToken cookie
refreshAnswer(cookie) ==
  IF cookie = 0 THEN Answer(401, "Refresh token required")
  ELSE IF getRefreshToken(cookie) = {} THEN Answer(401, "Invalid refresh token")
  ELSE LET storedToken == CHOOSE t \in getRefreshToken(cookie) : TRUE IN
       IF now > storedToken.expiresAt THEN Answer(401, "Refresh token expired")
       ELSE IF getUser(storedToken.userId) = 0
               \/ users[storedToken.userId].status # "active"
       THEN Answer(401, "User not found or inactive")
       ELSE Answer(200, "")

\* a handler that replaces the presented token by a fresh one on success
RefreshBody_Rotates(cookie) ==
  /\ refreshAnswer(cookie).code = 200
  /\ nextToken <= MaxTokens
  /\ accessTokens' = HandOut(generateAccessToken(
                       (CHOOSE t \in getRefreshToken(cookie) : TRUE).userId))
  /\ refreshTokens' = {t \in createRefreshToken(
                               (CHOOSE t \in getRefreshToken(cookie) : TRUE).userId,
                               "refresh", "active") : t.token # cookie}
  /\ nextToken' = nextToken + 1
  /\ Revoke(getRefreshToken(cookie), "rotated")
  /\ newActivities' = {}
  /\ newEmails' = << >>
  /\ UNCHANGED <<users, verificationCodes, apiKeys, inflight, now>>

RefreshBody(cookie) ==
  /\ newActivities' = {}
  /\ newEmails' = << >>
  /\ UNCHANGED <<users, verificationCodes, nextToken, apiKeys, inflight, now>>
  /\ \/ /\ refreshAnswer(cookie) = Answer(401, "Refresh token expired")
        /\ refreshTokens' = deleteRefreshToken(cookie)
        /\ Revoke(getRefreshToken(cookie), "expired")
        /\ UNCHANGED accessTokens
     \/ /\ refreshAnswer(cookie).code = 200
        /\ accessTokens' = HandOut(generateAccessToken(
                             (CHOOSE t \in getRefreshToken(cookie) : TRUE).userId))
        /\ UNCHANGED <<refreshTokens, revoked>>

Refresh ==
  /\ UNCHANGED client
  /\ \E cookie \in TokenStrings : RefreshBody(cookie)

\* ------------------------------------------------ POST /api/auth/logout
\* the route has no early return: with or without a cookie it answers 200
logoutAnswer(cookie) == Answer(200, "Logged out successfully")

\* cookie 0 is a request without the refreshToken cookie
LogoutBody(cookie) ==
  /\ refreshTokens' = IF cookie # 0 THEN deleteRefreshToken(cookie) ELSE refreshTokens
  /\ Revoke(IF cookie # 0 THEN getRefreshToken(cookie) ELSE {}, "logout")
  /\ newActivities' = {}
  /\ newEmails' = << >>
  /\ UNCHANGED <<users, verificationCodes, nextToken, accessTokens, apiKeys,
                 inflight, now>>

Logout ==
  /\ UNCHANGED client
  /\ \E cookie \in TokenStrings \cup {0} : LogoutBody(cookie)

\* ---------------------------------------------- PATCH /api/auth/profile
\* body {name, email}; an email equal to the caller's own leaves updates.email unset
profileCheck(caller, email) ==
  IF email # users[caller].email /\ getUserByEmail(email) # 0
  THEN Answer(400, "Email already in use")
  ELSE Proceed

ProfileBegin ==
  /\ CanStart
  /\ \E c \in Credentials, email \in Emails :
        LET caller == authMiddlewareAny(c).uid IN
        /\ caller # 0
        /\ profileCheck(caller, email) = Proceed
        /\ Start(Req("profile", caller, email, "", users[caller].email, 0))
        /\ apiKeys' = apiKeysAfter(c)
        /\ newActivities' = {}
        /\ newEmails' = << >>
        /\ UNCHANGED <<users, verificationCodes, refreshTokens, nextToken,
                       accessTokens, now, revoked, client>>

\* updateUser throws on a unique violation of the new email
ProfileEndBody(r) ==
  /\ Finish(r)
  /\ UNCHANGED <<verificationCodes, refreshTokens, nextToken, accessTokens,
                 apiKeys, now, revoked, client>>
  /\ IF r.email # r.seen /\ EmailUniqueViolation(r.email, r.uid)
     THEN /\ newActivities' = {}
          /\ newEmails' = << >>
          /\ UNCHANGED users
     ELSE /\ users' = IF r.email # r.seen
                      THEN [users EXCEPT ![r.uid].email = r.email]
                      ELSE users
          /\ newActivities' = {Activity(r.uid, "Profile updated")}
          /\ newEmails' = << >>

ProfileEnd ==
  \E r \in Pending("profile") : ProfileEndBody(r)

\* --------------------------------------- POST /api/auth/change-password
\* req.user is the row authMiddleware loaded
changePasswordCheck(caller, currentPassword) ==
  IF ~comparePassword(currentPassword, users[caller].password)
  THEN Answer(400, "Current password is incorrect")
  ELSE Proceed

ChangePasswordBegin ==
  /\ CanStart
  /\ \E c \in Credentials, currentPassword \in Passwords, newPassword \in Passwords :
        LET caller == authMiddlewareAny(c).uid IN
        /\ caller # 0
        /\ changePasswordCheck(caller, currentPassword) = Proceed
        /\ Start(Req("changePassword", caller, "", newPassword, "", 0))
        /\ apiKeys' = apiKeysAfter(c)
        /\ newActivities' = {}
        /\ newEmails' = << >>
        /\ UNCHANGED <<users, verificationCodes, refreshTokens, nextToken,
                       accessTokens, now, revoked, client>>

ChangePasswordEndBody(r) ==
  /\ Finish(r)
  /\ users' = [users EXCEPT ![r.uid].password = hashPassword(r.pw)]
  /\ refreshTokens' = deleteUserRefreshTokens(r.uid)
  /\ Revoke(refreshTokens \ deleteUserRefreshTokens(r.uid), "password")
  /\ newActivities' = {Activity(r.uid, "Password changed")}
  /\ newEmails' = << >>
  /\ UNCHANGED <<verificationCodes, nextToken, accessTokens, apiKeys, now, client>>

ChangePasswordEnd ==
  \E r \in Pending("changePassword") : ChangePasswordEndBody(r)

\* ------------------------------------------------- PATCH /api/users/:id
\* body {name, role, status}; "" stands for a field left out.  Neither role
\* nor status is validated: any non-empty string is stored.
PatchRoles == {"", "admin", "user"}

PatchStatuses == {"", "pending", "active", "blocked", "suspended"}

adminPatchCheck(id) ==
  IF getUser(id) = 0 THEN Answer(404, "User not found") ELSE Proceed

\* the answer of authMiddleware followed by adminOnly on credential c
adminGate(c) ==
  IF authMiddlewareAny(c).code # 200 THEN authMiddlewareAny(c).code
  ELSE IF ~adminOnly(authMiddlewareAny(c).uid) THEN 403
  ELSE 200

adminPatchAnswer(c, id) ==
  IF adminGate(c) # 200 THEN Answer(adminGate(c), "")
  ELSE IF adminPatchCheck(id) # Proceed THEN adminPatchCheck(id)
  ELSE Answer(200, "")

\* the handler mailing on every request with status active
AdminPatchUserBody_MailsOnEveryActive(c, id, role, status) ==
  LET caller == authMiddlewareAny(c).uid IN
  /\ adminGate(c) = 200
  /\ adminPatchCheck(id) = Proceed
  /\ apiKeys' = apiKeysAfter(c)
  /\ users' = [users EXCEPT
                 ![id].role = IF role # "" THEN role ELSE @,
                 ![id].status = IF status # "" THEN status ELSE @]
  /\ newActivities' = {Activity(caller, "User updated")}
  /\ newEmails' = IF status = "active"
                  THEN <<Mail("approval", users[id].email)>>
                  ELSE << >>
  /\ UNCHANGED <<verificationCodes, refreshTokens, nextToken, accessTokens,
                 inflight, now, revoked, client>>

AdminPatchUserBody(c, id, role, status) ==
  LET caller == authMiddlewareAny(c).uid IN
  /\ adminGate(c) = 200
  /\ adminPatchCheck(id) = Proceed
  /\ apiKeys' = apiKeysAfter(c)
  /\ users' = [users EXCEPT
                 ![id].role = IF role # "" THEN role ELSE @,
                 ![id].status = IF status # "" THEN status ELSE @]
  /\ newActivities' = {Activity(caller, "User updated")}
  /\ newEmails' = IF users[id].status # "active" /\ status = "active"
                  THEN <<Mail("approval", users[id].email)>>
                  ELSE << >>
  /\ UNCHANGED <<verificationCodes, refreshTokens, nextToken, accessTokens,
                 inflight, now, revoked, client>>

AdminPatchUser ==
  \E c \in Credentials, id \in UserIds, role \in PatchRoles, status \in PatchStatuses :
     AdminPatchUserBody(c, id, role, status)

\* the same handler for a body that carries status alone
\* the same request with {role}
AdminSetRole ==
  \E c \in Credentials, id \in UserIds, role \in Roles :
     AdminPatchUserBody(c, id, role, "")

\* the same request with {status: "blocked"}
AdminBlockUser ==
  \E c \in Credentials, id \in UserIds : AdminPatchUserBody(c, id, "", "blocked")

AdminPatchStatus ==
  \E c \in Credentials, id \in UserIds, status \in PatchStatuses \ {""} :
     AdminPatchUserBody(c, id, "", status)

\* ------------------------------------------------ DELETE /api/users/:id
\* the handler without its check of the caller's own id
adminDeleteCheck_AllowsSelf(caller, id) ==
  IF getUser(id) = 0 THEN Answer(404, "User not found")
  ELSE Proceed

adminDeleteCheck(caller, id) ==
  IF id = caller THEN Answer(400, "Cannot delete your own account")
  ELSE IF getUser(id) = 0 THEN Answer(404, "User not found")
  ELSE Proceed

adminDeleteAnswer(c, id) ==
  IF adminGate(c) # 200 THEN Answer(adminGate(c), "")
  ELSE IF adminDeleteCheck(authMiddlewareAny(c).uid, id) # Proceed
  THEN adminDeleteCheck(authMiddlewareAny(c).uid, id)
  ELSE Answer(200, "User deleted successfully")

\* deleteUser sets the flag; the row stays
deleteUser(id) == [users EXCEPT ![id].isDeleted = TRUE]

AdminDeleteUserBody(c, id) ==
  LET caller == authMiddlewareAny(c).uid IN
  /\ adminGate(c) = 200
  /\ adminDeleteCheck(caller, id) = Proceed
  /\ apiKeys' = apiKeysAfter(c)
  /\ users' = deleteUser(id)
  /\ newActivities' = {Activity(caller, "User deleted")}
  /\ newEmails' = << >>
  /\ UNCHANGED <<verificationCodes, refreshTokens, nextToken, accessTokens,
                 inflight, now, revoked, client>>

AdminDeleteUser ==
  \E c \in Credentials, id \in UserIds : AdminDeleteUserBody(c, id)

\* the request of an admin that the handler answers 400 or 404: the handler
\* writes nothing, authMiddleware has run
AdminDeleteUserRejectedBody(c, id) ==
  /\ adminGate(c) = 200
  /\ adminDeleteCheck(authMiddlewareAny(c).uid, id) # Proceed
  /\ apiKeys' = apiKeysAfter(c)
  /\ newActivities' = {}
  /\ newEmails' = << >>
  /\ UNCHANGED <<users, verificationCodes, refreshTokens, nextToken, accessTokens,
                 inflight, now, revoked, client>>

AdminDeleteUserRejected ==
  \E c \in Credentials, id \in UserIds : AdminDeleteUserRejectedBody(c, id)

\* ---------------------------------------------------- POST /api/api-keys
CreateApiKeyBody(c) ==
  LET caller == authMiddlewareAny(c).uid IN
  /\ caller # 0
  /\ Len(apiKeys) < MaxApiKeys
  /\ apiKeys' = Append(apiKeysAfter(c),
                       [userId |-> caller, isActive |-> TRUE, deleted |-> FALSE,
                        lastUsedAt |-> Never])
  /\ newActivities' = {Activity(caller, "API key created")}
  /\ newEmails' = << >>
  /\ UNCHANGED <<users, verificationCodes, refreshTokens, nextToken,
                 accessTokens, inflight, now, revoked, client>>

CreateApiKey == \E c \in Credentials : CreateApiKeyBody(c)

\* ----------------------------------------------- PATCH /api/api-keys/:id
\* body {isActive}; the route checks the caller's identity, not the key's owner
patchApiKeyCheck(id) ==
  IF getApiKeyByKey(id) = 0 THEN Answer(404, "API key not found") ELSE Proceed

PatchApiKeyBody(c, id, isActive) ==
  LET caller == authMiddlewareAny(c).uid IN
  /\ caller # 0
  /\ patchApiKeyCheck(id) = Proceed
  /\ apiKeys' = [apiKeysAfter(c) EXCEPT ![id].isActive = isActive]
  /\ newActivities' = {Activity(caller, IF isActive THEN "API key enabled"
                                                     ELSE "API key disabled")}
  /\ newEmails' = << >>
  /\ UNCHANGED <<users, verificationCodes, refreshTokens, nextToken,
                 accessTokens, inflight, now, revoked, client>>

PatchApiKey ==
  \E c \in Credentials, id \in ApiKeyIds, isActive \in BOOLEAN :
     PatchApiKeyBody(c, id, isActive)

\* ---------------------------------------------- DELETE /api/api-keys/:id
\* deleteApiKey removes the row; the model keeps it flagged, as ids are
\* indices. The route answers 200 also when no row had that id.
DeleteApiKey ==
  \E c \in Credentials, id \in ApiKeyIds :
     LET caller == authMiddlewareAny(c).uid IN
     /\ caller # 0
     /\ apiKeys' = [apiKeysAfter(c) EXCEPT ![id].deleted = TRUE]
     /\ newActivities' = {Activity(caller, "API key deleted")}
     /\ newEmails' = << >>
     /\ UNCHANGED <<users, verificationCodes, refreshTokens, nextToken,
                    accessTokens, inflight, now, revoked, client>>

\* --------------------------- a request with the key of an inactive owner
\* both middlewares update lastUsedAt of an active key before they look up
\* its owner; the request is then answered 401 and no handler runs
ApiKeyOwnerRejected ==
  \E key \in ApiKeyIds :
     /\ getApiKeyByKey(key) # 0
     /\ apiKeys[key].isActive
     /\ apiKeyMiddleware(key).code = 401
     /\ apiKeys' = touchApiKey(key)
     /\ newActivities' = {}
     /\ newEmails' = << >>
     /\ UNCHANGED <<users, verificationCodes, refreshTokens, nextToken,
                    accessTokens, inflight, now, revoked, client>>

\* ------------------------------------------------------ input validation
\* request bodies that the zod schemas of shared/schema.ts refuse
BadEmails == {"not-an-email"}

ShortPasswords == {"abc"}

BadCodes == {"12345"}

BodyEmails == Emails \cup BadEmails

BodyPasswords == Passwords \cup ShortPasswords

BodyCodes == CodeValues \cup BadCodes

\* z.string().email(): the well-formed addresses among the bodies submitted
isEmail(email) == email \notin BadEmails /\ email # ""

\* safeParse of each schema: "" for success, else the message of the first
\* issue (parsed.error.errors[0].message), in the order of the schema's fields
registerSchema(email, pw) ==
  IF ~isEmail(email) THEN "Invalid email address"
  ELSE IF Len(pw) < 6 THEN "Password must be at least 6 characters"
  ELSE ""

loginSchema(email, pw) ==
  IF ~isEmail(email) THEN "Invalid email address"
  ELSE IF Len(pw) < 1 THEN "Password is required"
  ELSE ""

verifyCodeSchema(email, code) ==
  IF ~isEmail(email) THEN "Invalid email address"
  ELSE IF Len(code) # 6 THEN "Code must be 6 digits"
  ELSE ""

changePasswordSchema(currentPassword, newPassword) ==
  IF Len(currentPassword) < 1 THEN "Current password is required"
  ELSE IF Len(newPassword) < 6 THEN "New password must be at least 6 characters"
  ELSE ""

\* a handler that parses the body only after it has inserted the code row
InvalidBodyRejected_ValidatesLate(key, email) ==
  /\ apiKeys' = apiKeysAfterAuth(key)
  /\ verificationCodes' =
       IF CanCreateCode THEN createVerificationCode(email, "111111", FALSE)
       ELSE verificationCodes
  /\ newActivities' = {}
  /\ newEmails' = << >>
  /\ UNCHANGED <<users, refreshTokens, nextToken, accessTokens,
                 inflight, now, revoked, client>>

\* the early return `if (!parsed.success) return res.status(400)` of a handler
\* whose middleware, if any, has run on the API key `key` (0 for none): the
\* handler writes nothing
InvalidBodyRejected(key, email) ==
  /\ apiKeys' = apiKeysAfterAuth(key)
  /\ newActivities' = {}
  /\ newEmails' = << >>
  /\ UNCHANGED <<users, verificationCodes, refreshTokens, nextToken, accessTokens,
                 inflight, now, revoked, client>>

\* the answer of POST /api/auth/login to a body, parsed first
loginAnswer(email, pw) ==
  IF loginSchema(email, pw) # "" THEN Answer(400, loginSchema(email, pw))
  ELSE loginCheck(email, pw, "Account pending approval")

\* the answer of POST /api/external/login: the middleware, then the body
externalLoginAnswer(key, email, pw) ==
  IF apiKeyMiddleware(key).code # 200 THEN Answer(401, "Invalid or disabled API key")
  ELSE IF loginSchema(email, pw) # "" THEN Answer(400, loginSchema(email, pw))
  ELSE loginCheck(email, pw, "Please verify your email first")

\* the API key authMiddleware has run on, 0 for an access token
KeyOf(c) == IF c.kind = "key" THEN c.key ELSE 0

\* POST /api/public/signup, /api/external/register, /api/admin/users/create
PublicSignupInvalid ==
  \E k \in SignupKeys, email \in BodyEmails, pw \in BodyPasswords :
     /\ getExternalSignupKey(k).isActive
     /\ registerSchema(email, pw) # ""
     /\ InvalidBodyRejected(0, email)

ExternalRegisterInvalid ==
  \E key \in ApiKeyIds, email \in BodyEmails, pw \in BodyPasswords :
     /\ apiKeyMiddleware(key).code = 200
     /\ registerSchema(email, pw) # ""
     /\ InvalidBodyRejected(key, email)

AdminCreateUserInvalid ==
  \E c \in Credentials, email \in BodyEmails, pw \in BodyPasswords :
     /\ adminGate(c) = 200
     /\ registerSchema(email, pw) # ""
     /\ InvalidBodyRejected(KeyOf(c), email)

\* POST /api/auth/verify, /api/external/verify
AuthVerifyInvalid ==
  \E email \in BodyEmails, code \in BodyCodes :
     /\ verifyCodeSchema(email, code) # ""
     /\ InvalidBodyRejected(0, email)

ExternalVerifyInvalid ==
  \E key \in ApiKeyIds, email \in BodyEmails, code \in BodyCodes :
     /\ apiKeyMiddleware(key).code = 200
     /\ verifyCodeSchema(email, code) # ""
     /\ InvalidBodyRejected(key, email)

\* POST /api/auth/login, /api/external/login
AuthLoginInvalid ==
  \E email \in BodyEmails, pw \in BodyPasswords \cup {""} :
     /\ loginSchema(email, pw) # ""
     /\ InvalidBodyRejected(0, email)

ExternalLoginInvalid ==
  \E key \in ApiKeyIds, email \in BodyEmails, pw \in BodyPasswords \cup {""} :
     /\ apiKeyMiddleware(key).code = 200
     /\ loginSchema(email, pw) # ""
     /\ InvalidBodyRejected(key, email)

\* POST /api/auth/resend-code: `if (!email)`
ResendCodeInvalid == InvalidBodyRejected(0, "")

\* POST /api/auth/change-password
ChangePasswordInvalid ==
  \E c \in Credentials, currentPassword \in BodyPasswords \cup {""},
     newPassword \in BodyPasswords :
     /\ authMiddlewareAny(c).code = 200
     /\ changePasswordSchema(currentPassword, newPassword) # ""
     /\ InvalidBodyRejected(KeyOf(c), "")

\* a request that one of the handlers answers 400 on its parsed body
ValidationRejected ==
  \/ PublicSignupInvalid
  \/ ExternalRegisterInvalid
  \/ AdminCreateUserInvalid
  \/ AuthVerifyInvalid
  \/ ExternalVerifyInvalid
  \/ AuthLoginInvalid
  \/ ExternalLoginInvalid
  \/ ResendCodeInvalid
  \/ ChangePasswordInvalid

\* ---------------------------------------------- the browser: lib/auth.tsx
\* the status a route behind authMiddleware answers to Authorization: Bearer
\* t; without the header, or with "Bearer null", it answers 401
bearerStatus(t) == IF t = NoToken THEN 401 ELSE authMiddleware(t).code

\* the server leaves every table as it was
ServerUnchanged ==
  /\ newActivities' = {}
  /\ newEmails' = << >>
  /\ UNCHANGED <<users, verificationCodes, refreshTokens, nextToken, accessTokens,
                 apiKeys, inflight, now, revoked>>

\* login(): the response of POST /api/auth/login sets the cookie and the
\* provider stores the access token
ClientLoginEnd ==
  \E r \in Pending("login") :
     /\ LoginEndBody(r, "User logged in")
     /\ client' = [client EXCEPT !.accessToken = generateAccessToken(r.uid),
                                 !.cookie = nextToken]

\* useAuthFetch: the callback of the current render closes over accessToken
\* and sends the request with it
FetchStart ==
  /\ client.pc \in {"idle", "done"}
  /\ ServerUnchanged
  /\ client' = [client EXCEPT
                  !.closure = client.accessToken,
                  !.status = bearerStatus(client.accessToken),
                  !.pc = IF bearerStatus(client.accessToken) = 401
                         THEN "refresh" ELSE "done",
                  !.rejected = IF bearerStatus(client.accessToken) = 401
                               THEN client.accessToken ELSE NoToken,
                  !.issued = NoToken,
                  !.retryWith = NoToken,
                  !.retries = 0,
                  !.loggedOut = FALSE]

\* refreshAuth() after a 401: on response.ok the provider stores the new
\* access token, a state the running callback does not see; any other
\* response, and a failed fetch, make it return false
FetchRefresh ==
  /\ client.pc = "refresh"
  /\ \/ /\ refreshAnswer(client.cookie).code = 200
        /\ RefreshBody(client.cookie)
        /\ client' = [client EXCEPT
                        !.accessToken = generateAccessToken(
                           (CHOOSE t \in getRefreshToken(client.cookie) : TRUE).userId),
                        !.issued = generateAccessToken(
                           (CHOOSE t \in getRefreshToken(client.cookie) : TRUE).userId),
                        !.pc = "retry"]
     \/ /\ refreshAnswer(client.cookie) = Answer(401, "Refresh token expired")
        /\ RefreshBody(client.cookie)
        /\ client' = [client EXCEPT !.pc = "logout"]
     \/ /\ refreshAnswer(client.cookie) # Answer(401, "Refresh token expired")
        /\ ServerUnchanged
        /\ client' = [client EXCEPT !.pc = "logout"]

\* headers.set("Authorization", `Bearer ${accessToken}`) and the second fetch
FetchRetry ==
  /\ client.pc = "retry"
  /\ ServerUnchanged
  /\ client' = [client EXCEPT
                  !.status = bearerStatus(client.closure),
                  !.retryWith = client.closure,
                  !.retries = @ + 1,
                  !.pc = "done"]

\* logout() after a failed refresh: POST /api/auth/logout clears the cookie,
\* the provider forgets the access token; the 401 is returned
FetchLogout ==
  /\ client.pc = "logout"
  /\ LogoutBody(client.cookie)
  /\ client' = [client EXCEPT !.accessToken = NoToken, !.cookie = 0,
                              !.loggedOut = TRUE, !.pc = "done"]

Next ==
  \/ Tick
  \/ TickWeek
  \/ AuthLoginBegin
  \/ AuthLoginEnd
  \/ ExternalLoginBegin
  \/ ExternalLoginEnd
  \/ AdminCreateUserBegin
  \/ AdminCreateUserEnd
  \/ PublicSignupBegin
  \/ PublicSignupEnd
  \/ ExternalRegisterBegin
  \/ ExternalRegisterEnd
  \/ AuthVerifyBegin
  \/ AuthVerifyEnd
  \/ ExternalVerifyBegin
  \/ ExternalVerifyEnd
  \/ ResendCode
  \/ Refresh
  \/ Logout
  \/ ProfileBegin
  \/ ProfileEnd
  \/ ChangePasswordBegin
  \/ ChangePasswordEnd
  \/ AdminPatchUser
  \/ AdminDeleteUser
  \/ AdminDeleteUserRejected
  \/ CreateApiKey
  \/ PatchApiKey
  \/ DeleteApiKey
  \/ ApiKeyOwnerRejected
  \/ ValidationRejected
  \/ ClientLoginEnd
  \/ FetchStart
  \/ FetchRefresh
  \/ FetchRetry
  \/ FetchLogout

Spec == Init /\ [][Next]_vars

\* The whole of Next is too large to enumerate; each property is checked
\* under the handlers that read or write the tables it is about.

\* Login, and the admin update that sets the status login reads.
NextLogin ==
  \/ AuthLoginBegin
  \/ AuthLoginEnd
  \/ ExternalLoginBegin
  \/ ExternalLoginEnd
  \/ AdminPatchStatus

SpecLogin == Init /\ [][NextLogin]_vars

\* The browser session of existing accounts: the handlers that store, read or
\* delete their refresh tokens.
NextSession ==
  \/ AuthLoginBegin
  \/ AuthLoginEnd
  \/ Refresh
  \/ Logout
  \/ ChangePasswordBegin
  \/ ChangePasswordEnd

SpecSession == Init /\ [][NextSession]_vars

\* Verification codes of existing accounts over time: resend-code and the
\* general verification.
NextCodes ==
  \/ Tick
  \/ ResendCode
  \/ AuthVerifyBegin
  \/ AuthVerifyEnd

SpecCodes == Init /\ [][NextCodes]_vars

\* Registration through an API key followed by the general verification.
NextRegister ==
  \/ ExternalRegisterBegin
  \/ ExternalRegisterEnd
  \/ ResendCode
  \/ AuthVerifyBegin
  \/ AuthVerifyEnd

SpecRegister == Init /\ [][NextRegister]_vars

\* Registration and verification: every handler that creates or consumes a
\* verification code.
NextVerify ==
  \/ Tick
  \/ PublicSignupBegin
  \/ PublicSignupEnd
  \/ ExternalRegisterBegin
  \/ ExternalRegisterEnd
  \/ ResendCode
  \/ AuthVerifyBegin
  \/ AuthVerifyEnd
  \/ ExternalVerifyBegin
  \/ ExternalVerifyEnd

SpecVerify == Init /\ [][NextVerify]_vars

\* Registration, external verification and the admin update of a status.
NextApproval ==
  \/ ExternalRegisterBegin
  \/ ExternalRegisterEnd
  \/ ExternalVerifyBegin
  \/ ExternalVerifyEnd
  \/ AdminPatchStatus

SpecApproval == Init /\ [][NextApproval]_vars

\* The handlers that insert, rename or soft-delete account rows.
NextAccounts ==
  \/ AdminCreateUserBegin
  \/ AdminCreateUserEnd
  \/ PublicSignupBegin
  \/ PublicSignupEnd
  \/ ExternalRegisterBegin
  \/ ExternalRegisterEnd
  \/ ProfileBegin
  \/ ProfileEnd
  \/ AdminDeleteUser

SpecAccounts == Init /\ [][NextAccounts]_vars

\* Sessions over a week: login, refresh, and the admin changes that end a
\* session's acceptance.
NextRefresh ==
  \/ TickWeek
  \/ AuthLoginBegin
  \/ AuthLoginEnd
  \/ Refresh
  \/ AdminBlockUser
  \/ AdminDeleteUser

SpecRefresh == Init /\ [][NextRefresh]_vars

\* The life of a refresh token: issued by login, used by refresh, ended by
\* expiry, refused while its account is blocked.
NextTokenLife ==
  \/ TickWeek
  \/ AuthLoginBegin
  \/ AuthLoginEnd
  \/ Refresh
  \/ AdminBlockUser

SpecTokenLife == Init /\ [][NextTokenLife]_vars

\* Requests with a bearer access token, while the clock runs and an admin
\* blocks or deletes accounts.
NextBearer ==
  \/ Tick
  \/ AuthLoginBegin
  \/ AuthLoginEnd
  \/ CreateApiKey
  \/ AdminBlockUser
  \/ AdminDeleteUser

SpecBearer == Init /\ [][NextBearer]_vars

\* Requests authenticated by API key, while keys are created, toggled and
\* deleted and an admin blocks accounts.
NextKeys ==
  \/ Tick
  \/ CreateApiKey
  \/ PatchApiKey
  \/ DeleteApiKey
  \/ ApiKeyOwnerRejected
  \/ AdminBlockUser

SpecKeys == Init /\ [][NextKeys]_vars

\* The admin-only routes, while roles change and access tokens signed before
\* the change are still held.
NextRoles ==
  \/ AuthLoginBegin
  \/ AuthLoginEnd
  \/ AdminSetRole
  \/ AdminDeleteUser

SpecRoles == Init /\ [][NextRoles]_vars

\* DELETE /api/users/:id, carried out or rejected, by callers holding an
\* access token or an API key.
NextDelete ==
  \/ Tick
  \/ AuthLoginBegin
  \/ AuthLoginEnd
  \/ AdminDeleteUser
  \/ AdminDeleteUserRejected

SpecDelete == Init /\ [][NextDelete]_vars

\* Requests refused on their body, by every handler that parses one, next to
\* a registration that goes through, while the clock runs.
NextValidation ==
  \/ Tick
  \/ ExternalRegisterBegin
  \/ ExternalRegisterEnd
  \/ ResendCode
  \/ ValidationRejected

SpecValidation == Init /\ [][NextValidation]_vars

\* Codes of existing accounts, consumed by either verification route while an
\* admin deletes accounts.
NextConsume ==
  \/ ResendCode
  \/ AuthVerifyBegin
  \/ AuthVerifyEnd
  \/ ExternalVerifyBegin
  \/ ExternalVerifyEnd
  \/ AdminDeleteUser

SpecConsume == Init /\ [][NextConsume]_vars

\* Logins against accounts that an admin sets pending, blocked or active, or
\* deletes.
NextLoginAnswer ==
  \/ AuthLoginBegin
  \/ AuthLoginEnd
  \/ AdminPatchStatus
  \/ AdminDeleteUser

SpecLoginAnswer == Init /\ [][NextLoginAnswer]_vars

\* A store with no accounts and no API keys: a fresh database, with the
\* signup keys of the tenant applications provisioned.
InitEmpty ==
  /\ users = << >>
  /\ verificationCodes = << >>
  /\ refreshTokens = {}
  /\ nextToken = 1
  /\ accessTokens = {}
  /\ apiKeys = << >>
  /\ inflight = EmptyBag
  /\ now = 0
  /\ newActivities = {}
  /\ newEmails = << >>
  /\ revoked = {}
  /\ client = AuthProvider

\* The routes that work from that store on: the public signup, then login
\* and the routes of an account that is active.
NextBootstrap ==
  \/ PublicSignupBegin
  \/ PublicSignupEnd
  \/ AuthLoginBegin
  \/ AuthLoginEnd
  \/ CreateApiKey
  \/ ExternalRegisterBegin
  \/ ExternalRegisterEnd

SpecBootstrap == InitEmpty /\ [][NextBootstrap]_vars

\* The browser: its login, its requests through useAuthFetch while the clock
\* runs, and an admin blocking its account.
NextClient ==
  \/ Tick
  \/ AuthLoginBegin
  \/ ClientLoginEnd
  \/ FetchStart
  \/ FetchRefresh
  \/ FetchRetry
  \/ FetchLogout
  \/ AdminBlockUser

SpecClient == Init /\ [][NextClient]_vars

\* ====================================================== properties
\* a request r that this step started
Started(r) == CopiesIn(r, inflight') > CopiesIn(r, inflight)

\* C1: a login with the correct password is answered 403 when the account is
\* pending or blocked and goes through when it is active, a login that goes
\* through stores exactly one new refresh-token row, and no refresh-token
\* row is ever stored by a login that read a status other than active.
C1LoginOnlyForActive ==
  /\ [](/\ \A email \in Emails, pw \in Passwords :
             LET u == getUserByEmail(email) IN
             (u # 0 /\ comparePassword(pw, users[u].password)) =>
                /\ users[u].status \in {"pending", "blocked"} =>
                     /\ loginCheck(email, pw, "Account pending approval").code = 403
                     /\ \A key \in ApiKeyIds :
                          externalLoginCheck(key, email, pw).code \in {401, 403}
                /\ users[u].status = "active" =>
                     loginCheck(email, pw, "Account pending approval") = Proceed
        /\ \A t \in refreshTokens :
             t.via \in {"login", "extlogin"} => t.seen = "active")
  /\ [][(AuthLoginEnd \/ ExternalLoginEnd) =>
          /\ refreshTokens \subseteq refreshTokens'
          /\ Cardinality(refreshTokens' \ refreshTokens) = 1]_vars

\* C2: the step of change-password that writes removes every refresh-token
\* row of the caller, so that a refresh with any of them is answered 401 from
\* then on, and leaves the rows of every other account as they were.
C2PasswordChangeRevokes ==
  /\ [](\A x \in revoked :
          x.by = "password" =>
             /\ getRefreshToken(x.token) = {}
             /\ refreshAnswer(x.token).code = 401)
  /\ [][\A r \in Pending("changePassword") :
          ChangePasswordEndBody(r) =>
             /\ \A t \in refreshTokens :
                  t.userId = r.uid =>
                     /\ t \notin refreshTokens'
                     /\ [token |-> t.token, userId |-> t.userId, by |-> "password"]
                          \in revoked'
             /\ {t \in refreshTokens' : t.userId # r.uid}
                  = {t \in refreshTokens : t.userId # r.uid}
             /\ {t \in refreshTokens' : t.userId = r.uid} = {}]_vars

\* a password change revoked a token while another account's token stayed
C2Witness ==
  \E x \in revoked :
     /\ x.by = "password"
     /\ newActivities = {Activity(x.userId, "Password changed")}
     /\ \E t \in refreshTokens : t.userId # x.userId

\* C3: a verification request, on the general route or on the external one,
\* can go on to its writes only when a stored row has the submitted email and
\* code, is not yet used and is not past its expiry; the row a request goes
\* on with is such a row; a used row stays used and is never again returned
\* by getVerificationCode.
C3VerifyNeedsFreshCode ==
  /\ [](/\ \A email \in Emails, code \in CodeValues :
             (\/ ENABLED VerifyBeginBody("verify", 0, email, code)
              \/ \E key \in ApiKeyIds :
                    ENABLED VerifyBeginBody("extverify", key, email, code)) =>
                \E cid \in CodeIds :
                   /\ verificationCodes[cid].email = email
                   /\ verificationCodes[cid].code = code
                   /\ ~verificationCodes[cid].used
                   /\ now <= verificationCodes[cid].expiresAt
        /\ \A cid \in CodeIds :
             verificationCodes[cid].used =>
                \A email \in Emails, code \in CodeValues :
                   cid \notin getVerificationCode(email, code))
  /\ [][/\ \A r \in BagToSet(inflight') :
             (Started(r) /\ r.op \in {"verify", "extverify"}) =>
                /\ r.cid \in CodeIds
                /\ verificationCodes[r.cid].email = r.email
                /\ ~verificationCodes[r.cid].used
                /\ now <= verificationCodes[r.cid].expiresAt
        /\ \A cid \in CodeIds :
             /\ verificationCodes[cid].okCount < verificationCodes'[cid].okCount =>
                  \E r \in Pending("verify") \cup Pending("extverify") : r.cid = cid
             /\ verificationCodes[cid].used => verificationCodes'[cid].used]_vars

\* a row consumed by a verification, still inside its ten minutes, that the
\* query no longer returns
C3Witness ==
  \E cid \in CodeIds :
     /\ verificationCodes[cid].used
     /\ verificationCodes[cid].okCount = 1
     /\ now <= verificationCodes[cid].expiresAt
     /\ VerifiableCodes(verificationCodes[cid].email, verificationCodes[cid].code) = {}

\* C4: of the verifications submitted with one (email, code) pair at most one
\* is successful: no code row is consumed by more than one verification.
C4CodeConsumedOnce ==
  \A cid \in CodeIds : verificationCodes[cid].okCount <= 1

\* C5: creating an account with the email of a non-deleted account is answered
\* 400 'Email already registered', and once that account is soft-deleted
\* the same request creates the account.
C5EmailFreedBySoftDelete ==
  \A email \in Emails :
     /\ getUserByEmail(email) # 0 =>
          adminCreateAnswer(email) = Answer(400, "Email already registered")
     /\ (getUserByEmail(email) = 0
           /\ \E i \in UserIds : users[i].email = email /\ users[i].isDeleted) =>
          adminCreateAnswer(email).code = 201

\* C6: no two accounts that are not soft-deleted hold the same email,
\* whatever the interleaving of the handlers that create an account or change
\* an email.
C6UniqueLiveEmail ==
  \A i, j \in UserIds :
     (i # j /\ ~users[i].isDeleted /\ ~users[j].isDeleted) =>
        users[i].email # users[j].email

\* a request that passed its email check is still in flight while another
\* account already holds that email, and three accounts exist
C6Witness ==
  /\ Cardinality({i \in UserIds : ~users[i].isDeleted}) >= 3
  /\ \E r \in BagToSet(inflight) :
        /\ r.op \in {"adminCreate", "signup", "extregister", "profile"}
        /\ getUserByEmail(r.email) # 0
        /\ getUserByEmail(r.email) # r.uid

\* C7: an account goes from blocked to active only in a step of the admin
\* update PATCH /api/users/:id, or at least in a request made with an
\* administrator's credential.
C7OnlyAdminUnblocks ==
  [][\A u \in UserIds :
       (users[u].status = "blocked" /\ users'[u].status = "active") =>
          \/ \E c \in Credentials, status \in PatchStatuses :
                AdminPatchUserBody(c, u, "", status)
          \/ \E r \in Pending("extverify") :
                /\ ExternalVerifyEndBody(r)
                /\ adminOnly(apiKeyMiddleware(r.key).uid)]_vars

\* C8: a verification that consumes a code row whose autoApprove flag is not
\* set makes no account active that was not active before.
C8NoApprovalWithoutFlag ==
  [][\A r \in Pending("verify") \cup Pending("extverify") :
       ((AuthVerifyEndBody(r) \/ ExternalVerifyEndBody(r))
          /\ ~verificationCodes[r.cid].autoApprove) =>
          \A u \in UserIds :
             users'[u].status = "active" => users[u].status = "active"]_vars

\* C9: the account that the public signup creates is pending, whatever the
\* auto-approve setting of the signup key, and a login with its password is
\* answered 403 at that point.
C9PublicSignupPending ==
  [][\A r \in Pending("signup"), code \in CodeValues :
       (PublicSignupEndBody(r, code) /\ users' # users) =>
          /\ users'[Len(users')].email = r.email
          /\ users'[Len(users')].status = "pending"
          /\ (loginCheck(r.email, r.pw, "Account pending approval"))'.code = 403]_vars

\* C10: the step of POST /api/auth/verify that writes marks the code row
\* used, records the activity 'Email verified' for the account of that email,
\* and leaves every account's status and role, and the refresh tokens, as
\* they were.
C10VerifyLeavesStatus ==
  [][\A r \in Pending("verify") :
       AuthVerifyEndBody(r) =>
          /\ verificationCodes'[r.cid].used
          /\ getUserByEmail(r.email) # 0 =>
               Activity(getUserByEmail(r.email), "Email verified") \in newActivities'
          /\ Len(users') = Len(users)
          /\ \A u \in UserIds :
               /\ users'[u].status = users[u].status
               /\ users'[u].role = users[u].role
          /\ refreshTokens' = refreshTokens]_vars

\* a registered account that is still pending right after the general
\* verification consumed its code
C10Witness ==
  \E cid \in CodeIds :
     LET u == getUserByEmail(verificationCodes[cid].email) IN
     /\ verificationCodes[cid].used
     /\ u # 0
     /\ users[u].status = "pending"
     /\ newActivities = {Activity(u, "Email verified")}

\* C11: a registration through POST /api/external/register that creates the
\* account is answered 201 and the account is pending; the writing step of a
\* following POST /api/external/verify is answered 200, the account's stored
\* status is active, and the step has stored a refresh token of that account
\* which POST /api/auth/refresh accepts.
C11ExternalRegisterThenVerify ==
  [][/\ \A r \in Pending("extregister"), code \in CodeValues :
          (ExternalRegisterEndBody(r, code) /\ users' # users) =>
             /\ externalRegisterAnswer(r).code = 201
             /\ users'[Len(users')].email = r.email
             /\ users'[Len(users')].status = "pending"
     /\ \A r \in Pending("extverify") :
          (ExternalVerifyEndBody(r) /\ getUserByEmail(r.email) # 0) =>
             /\ externalVerifyAnswer(r).code = 200
             /\ users'[getUserByEmail(r.email)].status = "active"
             /\ \E t \in refreshTokens' \ refreshTokens :
                   /\ t.userId = getUserByEmail(r.email)
                   /\ (refreshAnswer(t.token))'.code = 200]_vars

\* the strings a client can present as a refresh token: every one issued so
\* far, the next one (never issued), and none
Cookies == 0..nextToken

\* the stored row of token string cookie is within its expiry and its account
\* is stored, not soft-deleted, and active
RefreshableRows(cookie) ==
  {t \in refreshTokens :
     /\ t.token = cookie
     /\ now <= t.expiresAt
     /\ t.userId \in UserIds
     /\ ~users[t.userId].isDeleted
     /\ users[t.userId].status = "active"}

\* C12: POST /api/auth/refresh answers 200 exactly when the presented token is
\* stored, not past its expiry, and its account is found and active, and 401
\* otherwise; a request answered 200 hands out an access token of the
\* token's account, and a request that finds the token past its expiry
\* deletes it and hands out nothing.
C12RefreshIffValid ==
  /\ [](\A cookie \in Cookies :
         /\ refreshAnswer(cookie).code = 200 <=> RefreshableRows(cookie) # {}
         /\ refreshAnswer(cookie).code \in {200, 401}
         /\ \A t \in getRefreshToken(cookie) :
              now > t.expiresAt =>
                 refreshAnswer(cookie) = Answer(401, "Refresh token expired"))
  /\ [][\A cookie \in Cookies :
         RefreshBody(cookie) =>
            \/ /\ RefreshableRows(cookie) # {}
               /\ \E t \in RefreshableRows(cookie) :
                     generateAccessToken(t.userId) \in accessTokens'
               /\ refreshTokens' = refreshTokens
            \/ /\ \E t \in getRefreshToken(cookie) : now > t.expiresAt
               /\ (getRefreshToken(cookie))' = {}
               /\ accessTokens' = accessTokens]_vars

\* a token was found expired and deleted, and another sits exactly at its
\* expiry and is accepted
C12Witness ==
  /\ \E r \in revoked : r.by = "expired"
  /\ \E t \in refreshTokens :
        t.expiresAt = now /\ refreshAnswer(t.token).code = 200

\* the row of an accepted token is gone, past its expiry, or still accepted
\* after the step
StaysAcceptedOrEnded(cookie) ==
  \/ (refreshAnswer(cookie))'.code = 200
  \/ \E t \in getRefreshToken(cookie) : now' > t.expiresAt
  \/ \E r \in revoked' \ revoked : r.token = cookie

\* C13 as stated: a successful refresh leaves the stored refresh tokens as
\* they were, and a token that is accepted stays accepted after every step
\* that neither takes it past its original expiry nor deletes its row.
C13AcceptedUntilExpiryOrRevocation ==
  [][\A cookie \in Cookies :
       /\ (refreshAnswer(cookie).code = 200 /\ RefreshBody(cookie)) =>
             refreshTokens' = refreshTokens
       /\ refreshAnswer(cookie).code = 200 => StaysAcceptedOrEnded(cookie)]_vars

\* C13 amended: a successful refresh leaves the stored refresh tokens as they
\* were and the presented token accepted; a stored row never changes its
\* token's account or expiry; and a token that is accepted stays accepted
\* after every step that neither takes it past its original expiry, nor
\* deletes its row, nor leaves its account not found or not active.
C13RefreshDoesNotRotate ==
  [][\A cookie \in Cookies :
       /\ (refreshAnswer(cookie).code = 200 /\ RefreshBody(cookie)) =>
             /\ refreshTokens' = refreshTokens
             /\ revoked' = revoked
             /\ (refreshAnswer(cookie))'.code = 200
       /\ (getRefreshToken(cookie))' \in {getRefreshToken(cookie), {}}
             \/ getRefreshToken(cookie) = {}
       /\ refreshAnswer(cookie).code = 200 =>
             \/ StaysAcceptedOrEnded(cookie)
             \/ \E t \in getRefreshToken(cookie) :
                   (getUser(t.userId))' = 0 \/ users'[t.userId].status # "active"]_vars

\* a token used by a successful refresh (an access token was handed out at
\* a time no login ran) is still stored and accepted a week after it was
\* issued, and the token of a blocked account is refused
C13Witness ==
  /\ \E t \in refreshTokens :
        /\ t.expiresAt = now
        /\ refreshAnswer(t.token).code = 200
        /\ \E a \in accessTokens : a.userId = t.userId /\ a.exp = now + ACCESS_TOKEN_EXPIRY
  /\ \E t \in refreshTokens :
        /\ now <= t.expiresAt
        /\ users[t.userId].status = "blocked"
        /\ refreshAnswer(t.token).code = 401

\* C14: POST /api/auth/logout always answers 200; the request removes the row
\* of the presented token and no other row, also not another row of the same
\* account; presented with a token that is not stored (deleted before, or
\* never issued) or with no token, it leaves every table as it was.
C14LogoutDeletesOnlyPresented ==
  /\ [](\A cookie \in Cookies :
          /\ logoutAnswer(cookie).code = 200
          /\ ENABLED LogoutBody(cookie))
  /\ [][\A cookie \in Cookies :
          LogoutBody(cookie) =>
             /\ refreshTokens' = refreshTokens \ getRefreshToken(cookie)
             /\ (getRefreshToken(cookie))' = {}
             /\ UNCHANGED <<users, verificationCodes, accessTokens, apiKeys>>
             /\ getRefreshToken(cookie) = {} =>
                  UNCHANGED <<refreshTokens, revoked>>]_vars

\* a logout removed one token of an account that still has another stored
C14Witness ==
  \E x \in revoked :
     /\ x.by = "logout"
     /\ getRefreshToken(x.token) = {}
     /\ \E t \in refreshTokens : t.userId = x.userId

\* the access tokens a client can present: those the server signed, and
\* payloads it never signed
BearerTokens ==
  accessTokens \cup
    {[userId |-> u, role |-> r, exp |-> now + ACCESS_TOKEN_EXPIRY] :
       u \in UserIds, r \in Roles}

\* the account of id u is stored and not soft-deleted
AccountFound(u) == u \in UserIds /\ ~users[u].isDeleted

\* C15: authMiddleware admits a bearer access token exactly when the server
\* signed it, it is not past its exp, and its account is found with status
\* active, read from the store at that moment; it answers 401 for a token
\* that does not verify or whose account is not found, and 403 for an account
\* that is not active. A handler behind it takes a step with a token only in
\* the admitted case.
C15BearerNeedsActiveAccount ==
  /\ [](\A t \in BearerTokens :
          /\ authMiddleware(t).code = 200 <=>
                /\ t \in accessTokens
                /\ now < t.exp
                /\ AccountFound(t.userId)
                /\ users[t.userId].status = "active"
          /\ authMiddleware(t).code = 200 => authMiddleware(t).uid = t.userId
          /\ (t \notin accessTokens \/ now >= t.exp) => authMiddleware(t).code = 401
          /\ (t \in accessTokens /\ now < t.exp /\ ~AccountFound(t.userId)) =>
                authMiddleware(t).code = 401
          /\ (t \in accessTokens /\ now < t.exp /\ AccountFound(t.userId)
                /\ users[t.userId].status # "active") =>
                authMiddleware(t).code = 403)
  /\ [][\A c \in Credentials :
          (/\ c.kind = "jwt"
           /\ \/ CreateApiKeyBody(c)
              \/ \E id \in UserIds : AdminPatchUserBody(c, id, "", "blocked")
              \/ \E id \in UserIds : AdminDeleteUserBody(c, id)) =>
             /\ now < c.token.exp
             /\ AccountFound(c.token.userId)
             /\ users[c.token.userId].status = "active"]_vars

\* an admin has blocked an account that holds an unexpired access token, and
\* the token is answered 403
C15Witness ==
  \E t \in accessTokens :
     /\ now < t.exp
     /\ AccountFound(t.userId)
     /\ users[t.userId].status = "blocked"
     /\ authMiddleware(t).code = 403
     /\ \E a \in newActivities : a.action = "User updated"

\* the keys a client can present: every row ever inserted and one that was
\* never stored
PresentedKeys == 1..(Len(apiKeys) + 1)

\* the row of the key is stored and active and its owner is found and active
KeyAdmissible(key) ==
  /\ key \in ApiKeyIds
  /\ ~apiKeys[key].deleted
  /\ apiKeys[key].isActive
  /\ AccountFound(apiKeys[key].userId)
  /\ users[apiKeys[key].userId].status = "active"

KeyCredential(key) ==
  [kind |-> "key", token |-> [userId |-> 0, role |-> "", exp |-> 0], key |-> key]

\* C16: a request authenticated by API key, in authMiddleware or in
\* apiKeyMiddleware, is admitted exactly when the key is stored and active
\* and its owner is found with status active, and is answered 401 otherwise,
\* so a key toggled inactive is refused for as long as it stays inactive.
\* While no access token has been handed out, every step of a handler behind
\* authMiddleware (it records an activity of its caller) was made with an
\* admissible key of that caller, and leaves that key's lastUsedAt at the
\* time of the request.
C16ApiKeyNeedsActiveKeyAndOwner ==
  /\ [](\A key \in PresentedKeys :
          /\ apiKeyMiddleware(key).code = 200 <=> KeyAdmissible(key)
          /\ apiKeyMiddleware(key).code \in {200, 401}
          /\ authMiddlewareAny(KeyCredential(key)).code = 200 <=> KeyAdmissible(key)
          /\ authMiddlewareAny(KeyCredential(key)).code \in {200, 401}
          /\ KeyAdmissible(key) =>
                /\ apiKeyMiddleware(key).uid = apiKeys[key].userId
                /\ apiKeysAfterAuth(key)[key].lastUsedAt = now
          /\ \A email \in Emails :
                externalRegisterCheck(key, email).code = 401 <=> ~KeyAdmissible(key))
  /\ [][\A a \in newActivities' :
          accessTokens = {} =>
             \E key \in ApiKeyIds :
                /\ KeyAdmissible(key)
                /\ apiKeys[key].userId = a.userId
                /\ apiKeys'[key].lastUsedAt = now]_vars

\* after the clock moved, a key was toggled inactive by a request made with
\* another key: the first is refused, the second carries the time of that
\* request
C16Witness ==
  \E key \in ApiKeyIds, other \in ApiKeyIds :
     /\ ~apiKeys[key].isActive
     /\ ~apiKeys[key].deleted
     /\ AccountFound(apiKeys[key].userId)
     /\ users[apiKeys[key].userId].status = "active"
     /\ apiKeyMiddleware(key).code = 401
     /\ \E a \in newActivities : a.action = "API key disabled"
     /\ other # key
     /\ now > 0
     /\ apiKeys[other].lastUsedAt = now
     /\ apiKeys[key].lastUsedAt < now

\* the account credential c belongs to: the owner of the key, the userId
\* claim of the token
CredentialOwner(c) ==
  IF c.kind = "jwt" THEN c.token.userId
  ELSE IF c.key \in ApiKeyIds THEN apiKeys[c.key].userId ELSE 0

\* C17: the admin gate lets a credential through exactly when authMiddleware
\* admits it and the stored role of its account is admin, whatever role the
\* token carries; it answers 403 to an admitted caller whose stored role is
\* user. Create user can start, and PATCH and DELETE /api/users/:id take
\* effect, only for such a caller.
C17AdminGateReadsStoredRole ==
  /\ [](\A c \in Credentials :
          /\ adminGate(c) = 200 <=>
                /\ authMiddlewareAny(c).code = 200
                /\ users[CredentialOwner(c)].role = "admin"
          /\ (authMiddlewareAny(c).code = 200
                /\ users[CredentialOwner(c)].role # "admin") => adminGate(c) = 403
          /\ (\E email \in Emails, pw \in SignupPasswords :
                 ENABLED AdminCreateUserBeginBody(c, email, pw)) =>
                users[CredentialOwner(c)].role = "admin")
  /\ [][\A c \in Credentials :
          (\/ \E id \in UserIds, role \in Roles : AdminPatchUserBody(c, id, role, "")
           \/ \E id \in UserIds : AdminDeleteUserBody(c, id)) =>
             /\ authMiddlewareAny(c).code = 200
             /\ users[CredentialOwner(c)].role = "admin"]_vars

\* a caller demoted to user holds an unexpired token signed while they were
\* admin, and the gate answers it 403
C17Witness ==
  \E c \in Credentials :
     /\ c.kind = "jwt"
     /\ c.token.role = "admin"
     /\ authMiddleware(c.token).code = 200
     /\ users[c.token.userId].role = "user"
     /\ adminGate(c) = 403
     /\ \E a \in newActivities : a.action = "User updated"

\* C18: for a soft-deleted account, a login with its email is answered 401
\* whatever the password, a refresh with any of its stored refresh tokens is
\* answered 401, its access tokens and its API keys are answered 401 by the
\* middlewares, and an admin PATCH or DELETE on its id is answered 404; no
\* step removes an account row or clears its isDeleted flag.
C18SoftDeletedIsExcluded ==
  /\ [](\A u \in UserIds :
          users[u].isDeleted =>
             /\ \A pw \in Passwords :
                  loginCheck(users[u].email, pw, "Account pending approval").code = 401
             /\ \A t \in refreshTokens :
                  t.userId = u => refreshAnswer(t.token).code = 401
             /\ \A t \in accessTokens :
                  t.userId = u => authMiddleware(t).code = 401
             /\ \A key \in ApiKeyIds :
                  apiKeys[key].userId = u =>
                     /\ apiKeyMiddleware(key).code = 401
                     /\ authMiddlewareAny(KeyCredential(key)).code = 401
             /\ adminPatchCheck(u).code = 404
             /\ \A c \in Credentials :
                  /\ adminGate(c) = 200 => adminPatchAnswer(c, u).code = 404
                  /\ adminGate(c) = 200 => adminDeleteAnswer(c, u).code = 404)
  /\ [][/\ Len(users') >= Len(users)
         /\ \A u \in UserIds : users[u].isDeleted => users'[u].isDeleted]_vars

\* an account that holds a stored, unexpired refresh token, an access token
\* and an API key has just been soft-deleted
C18Witness ==
  \E u \in UserIds :
     /\ users[u].isDeleted
     /\ users[u].status = "active"
     /\ \E t \in refreshTokens : t.userId = u /\ now <= t.expiresAt
     /\ \E t \in accessTokens : t.userId = u
     /\ \E key \in ApiKeyIds : apiKeys[key].userId = u /\ apiKeys[key].isActive
     /\ \E a \in newActivities : a.action = "User deleted"

\* no step soft-deletes an account on a request made with a credential of
\* that account
NoSelfDelete ==
  \A id \in UserIds :
     (users'[id].isDeleted /\ ~users[id].isDeleted) =>
        /\ \E caller \in UserIds \ {id} :
              newActivities' = {Activity(caller, "User deleted")}
        /\ \A c \in Credentials : AdminDeleteUserBody(c, id) => CredentialOwner(c) # id

\* C19 as stated: DELETE /api/users/:id on the caller's own id is answered
\* 400 and leaves every table as it was, and no account is soft-deleted by a
\* request made with its own credentials.
C19SelfDeleteChangesNothing ==
  /\ [](\A c \in Credentials :
          adminGate(c) = 200 => adminDeleteAnswer(c, CredentialOwner(c)).code = 400)
  /\ [][/\ NoSelfDelete
         /\ \A c \in Credentials :
              AdminDeleteUserRejectedBody(c, CredentialOwner(c)) =>
                 UNCHANGED <<users, verificationCodes, refreshTokens, accessTokens,
                             apiKeys>>]_vars

\* C19 amended: DELETE /api/users/:id on the caller's own id is answered 400
\* and leaves every table as it was, except that authMiddleware has set
\* lastUsedAt of the API key the request was made with; no account is
\* soft-deleted by a request made with its own credentials.
C19SelfDeleteRejected ==
  /\ [](\A c \in Credentials :
          adminGate(c) = 200 => adminDeleteAnswer(c, CredentialOwner(c)).code = 400)
  /\ [][/\ NoSelfDelete
         /\ \A c \in Credentials :
              AdminDeleteUserRejectedBody(c, CredentialOwner(c)) =>
                 /\ UNCHANGED <<users, verificationCodes, refreshTokens, accessTokens>>
                 /\ Len(apiKeys') = Len(apiKeys)
                 /\ \A k \in ApiKeyIds :
                      \/ apiKeys'[k] = apiKeys[k]
                      \/ /\ c.kind = "key"
                         /\ c.key = k
                         /\ apiKeys'[k] = [apiKeys[k] EXCEPT !.lastUsedAt = now]]_vars

\* an admin's request to delete their own account, made with their API key
\* after the clock moved, was rejected: no account is deleted, no activity
\* was recorded, and the key carries the time of the request
C19Witness ==
  \E k \in ApiKeyIds :
     /\ adminDeleteAnswer(KeyCredential(k), apiKeys[k].userId).code = 400
     /\ now > 0
     /\ apiKeys[k].lastUsedAt = now
     /\ newActivities = {}
     /\ \A u \in UserIds : ~users[u].isDeleted

\* C20: a PATCH /api/users/:id by an admin with status active on an account
\* whose stored status is not active is answered 200, leaves the status
\* active, calls sendApprovalEmail once, for that account's address, and
\* records one activity of the caller; every other PATCH sends no mail.
C20ApprovalMailOnActivation ==
  [][\A c \in Credentials, id \in UserIds, status \in PatchStatuses :
       AdminPatchUserBody(c, id, "", status) =>
          IF status = "active" /\ users[id].status # "active"
          THEN /\ adminPatchAnswer(c, id).code = 200
               /\ users'[id].status = "active"
               /\ newEmails' = <<Mail("approval", users[id].email)>>
               /\ newActivities' = {Activity(CredentialOwner(c), "User updated")}
          ELSE newEmails' = << >>]_vars

\* an admin has just activated a pending account and the approval mail for
\* its address is the one mail of that step
C20Witness ==
  \E id \in UserIds :
     /\ users[id].status = "active"
     /\ newEmails = <<Mail("approval", users[id].email)>>
     /\ \E a \in newActivities : a.action = "User updated" /\ a.userId # id

\* C21: every account's stored status is one of pending, active, blocked and
\* its stored role is one of admin, user, after any sequence of registrations,
\* verifications and admin updates.
C21StatusAndRoleInDomain ==
  \A u \in UserIds :
     /\ users[u].status \in Statuses
     /\ users[u].role \in Roles

\* C22 as stated: a request answered 400 on its parsed body leaves every
\* table as it was, records no activity and sends no mail, on every route,
\* those behind an API key included.
C22InvalidBodyWritesNothing ==
  [][ValidationRejected =>
        /\ UNCHANGED <<users, verificationCodes, refreshTokens, apiKeys>>
        /\ newActivities' = {}
        /\ newEmails' = << >>]_vars

\* C22 amended: a request answered 400 on its parsed body leaves the
\* accounts, the verification codes and the refresh tokens as they were,
\* records no activity and sends no mail; of the API keys nothing changes
\* but lastUsedAt of an admissible key, which the middleware has set to the
\* time of the request; the bodies the handlers go on with pass their schema.
C22InvalidBodyWritesOnlyLastUsed ==
  /\ [](/\ \A email \in Emails, pw \in SignupPasswords : registerSchema(email, pw) = ""
        /\ \A email \in Emails, pw \in Passwords :
             /\ loginSchema(email, pw) = ""
             /\ \A code \in CodeValues : verifyCodeSchema(email, code) = ""
             /\ \A newPassword \in Passwords : changePasswordSchema(pw, newPassword) = "")
  /\ [][ValidationRejected =>
          /\ UNCHANGED <<users, verificationCodes, refreshTokens, nextToken, inflight>>
          /\ newActivities' = {}
          /\ newEmails' = << >>
          /\ Len(apiKeys') = Len(apiKeys)
          /\ \A k \in ApiKeyIds :
               \/ apiKeys'[k] = apiKeys[k]
               \/ /\ KeyAdmissible(k)
                  /\ apiKeys'[k] = [apiKeys[k] EXCEPT !.lastUsedAt = now]]_vars

\* after the clock moved, a request with an API key was refused on its body:
\* nothing is stored or in flight, and the key carries the time of the request
C22Witness ==
  /\ now > 0
  /\ \E k \in ApiKeyIds : apiKeys[k].lastUsedAt = now
  /\ inflight = EmptyBag
  /\ Len(users) = 2
  /\ verificationCodes = << >>
  /\ newEmails = << >>

\* C23: when sendVerificationEmail returns false in a registration through
\* POST /api/external/register or POST /api/public/signup, or in a resend,
\* the request is answered with an error status, and the account row stays
\* stored.
C23MailFailureIsAnError ==
  [][/\ \A r \in Pending("extregister"), code \in CodeValues :
          (/\ ExternalRegisterEndBody(r, code)
           /\ newEmails' = <<sendVerificationEmail(r.email, FALSE)>>) =>
             /\ externalRegisterAnswer(r).code >= 400
             /\ (getUserByEmail(r.email))' # 0
     /\ \A r \in Pending("signup"), code \in CodeValues :
          (/\ PublicSignupEndBody(r, code)
           /\ newEmails' = <<sendVerificationEmail(r.email, FALSE)>>) =>
             /\ publicSignupAnswer(r).code >= 400
             /\ (getUserByEmail(r.email))' # 0
     /\ \A email \in Emails, code \in CodeValues :
          ResendCodeBody(email, code, FALSE) =>
             /\ resendAnswer(email, FALSE).code >= 400
             /\ (getUserByEmail(email))' # 0]_vars

\* the answers a verification request for (email, code) can get from the
\* checks both verify handlers make: one per row the query may hand over
verifyAnswers(email, code) ==
  IF getVerificationCode(email, code) = {} THEN {verifyCheck(0)}
  ELSE {verifyCheck(cid) : cid \in getVerificationCode(email, code)}

\* C24: every verification request that fails gets the same status and the
\* same message, whether the code is wrong, already used, or expired.
C24FailedVerifyIndistinguishable ==
  \A e1 \in Emails, c1 \in CodeValues, e2 \in Emails, c2 \in CodeValues :
     \A a1 \in verifyAnswers(e1, c1), a2 \in verifyAnswers(e2, c2) :
        (a1 # Proceed /\ a2 # Proceed) => a1 = a2

C26RetryCarriesNewToken ==
  (client.pc = "done" /\ client.rejected # client.issued) =>
     /\ client.issued # NoToken =>
          /\ client.retries = 1
          /\ client.retryWith = client.issued
          /\ ~client.loggedOut
     /\ client.loggedOut => client.retries = 0

\* C27: a step that changes isActive of an API key, or deletes the key, is
\* the step of a request authenticated as the key's owning account (the
\* activity it records is the owner's); a PATCH or DELETE /api/api-keys/:id
\* made by another account leaves the key as it was.
C27OnlyOwnerChangesKey ==
  [][\A k \in ApiKeyIds :
       (\/ apiKeys'[k].isActive # apiKeys[k].isActive
        \/ apiKeys'[k].deleted # apiKeys[k].deleted) =>
          \E a \in newActivities' : a.userId = apiKeys[k].userId]_vars

\* C28: a login that stores its refresh token does so on proof of the
\* account's current password: a login whose password check ran before a
\* change-password of the same account completed stores no refresh token
\* after that request's bulk revocation.
C28NoTokenOnOldPassword ==
  [][\A r \in Pending("login") :
       LoginEndBody(r, "User logged in") =>
          comparePassword(r.pw, users[r.uid].password)]_vars

\* C29: a step that sets the used flag of a verification code is the writing
\* step of a verification request that is answered with success, on the
\* general route or on the external one; a request answered with an error,
\* POST /api/external/verify for an email without account included, leaves
\* every used flag as it was.
C29ErrorLeavesCodeUnused ==
  [][\A cid \in CodeIds :
       (verificationCodes'[cid].used /\ ~verificationCodes[cid].used) =>
          \E r \in Pending("verify") \cup Pending("extverify") :
             /\ r.cid = cid
             /\ \/ r.op = "verify" /\ AuthVerifyEndBody(r)
                \/ /\ r.op = "extverify"
                   /\ ExternalVerifyEndBody(r)
                   /\ externalVerifyAnswer(r).code = 200]_vars

\* the password pw is not the password of a non-deleted account with that
\* email: there is no such account, or its hash does not match
WrongPassword(email, pw) ==
  \/ getUserByEmail(email) = 0
  \/ ~comparePassword(pw, users[getUserByEmail(email)].password)

\* C30: a login whose body passes the schema and does not carry the
\* account's correct password is answered 401 'Invalid email or password' on
\* both login routes, whether the email belongs to no account, to a
\* soft-deleted account, or to an account of any status; no body without the
\* correct password is answered 403, on either route, and an answer 403 is
\* given only to the correct password of a pending or blocked account.
C30WrongPasswordAlways401 ==
  \A email \in BodyEmails, pw \in BodyPasswords \cup {""} :
     /\ WrongPassword(email, pw) =>
          /\ loginSchema(email, pw) = "" =>
               /\ loginAnswer(email, pw) = Answer(401, "Invalid email or password")
               /\ \A key \in ApiKeyIds :
                    apiKeyMiddleware(key).code = 200 =>
                       externalLoginAnswer(key, email, pw)
                         = Answer(401, "Invalid email or password")
          /\ loginAnswer(email, pw).code \in {400, 401}
          /\ \A key \in ApiKeyIds :
               externalLoginAnswer(key, email, pw).code \in {400, 401}
     /\ (\/ loginAnswer(email, pw).code = 403
         \/ \E key \in ApiKeyIds : externalLoginAnswer(key, email, pw).code = 403) =>
          /\ ~WrongPassword(email, pw)
          /\ users[getUserByEmail(email)].status \in {"pending", "blocked"}

\* one account is soft-deleted and another is pending or blocked: a wrong
\* password for either is answered 401, the correct password of the second 403
C30Witness ==
  \E u \in UserIds, v \in UserIds :
     /\ users[u].isDeleted
     /\ ~users[v].isDeleted
     /\ users[v].status \in {"pending", "blocked"}
     /\ loginAnswer(users[u].email, "secret1").code = 401
     /\ loginAnswer(users[v].email, "secret2").code = 401
     /\ loginAnswer(users[v].email, "secret1").code = 403

====
